---------------------------- MODULE Spec2Model ----------------------------
(***************************************************************************)
(* A state-machine model of the Hipi UPS driver (src/hipi-ups.c).          *)
(*                                                                         *)
(* The driver owns one delayed work (shutdown_work), one kernel timer      *)
(* (ups_online_timer), the flag ups_online and the status GPIO.  Four      *)
(* kinds of execution context touch them and interleave freely:            *)
(*   - the probe / remove call and the devres release that follows them,   *)
(*   - the power IRQ thread   (power_irq_handler),                         *)
(*   - the online IRQ thread  (ups_online_irq_handler),                    *)
(*   - the timer softirq and the workqueue worker                          *)
(*     (ups_online_timer_callback, shutdown_work_handler).                 *)
(* Time is counted in jiffies; a Tick step advances it by one jiffy and is *)
(* taken only when no expired timer, queued work or running callback is    *)
(* waiting to be served.                                                   *)
(***************************************************************************)
EXTENDS Integers, FiniteSets, Sequences, TLC

\* ------------------------------------------------------------ constants --
SHUTDOWN_DELAY_MS == 60000
UPS_ONLINE_WATCHDOG_TIMEOUT_MS == 2000

\* Length of one jiffy of the model, in milliseconds.  At 20 s per jiffy the
\* shutdown delay is 3 jiffies and the watchdog timeout rounds up to 1 jiffy;
\* a timer armed for n jiffies is served after exactly n Tick steps.
MsPerTick == 20000
\* Number of power-line level changes / glitches the environment produces.
MaxPowerEdges == 2
\* Number of heartbeat edges the environment produces.
MaxBeats == 2

\* msecs_to_jiffies rounds up to whole jiffies.
msecs_to_jiffies(m) == (m + MsPerTick - 1) \div MsPerTick

ShutdownDelay == msecs_to_jiffies(SHUTDOWN_DELAY_MS)
WatchdogTimeout == msecs_to_jiffies(UPS_ONLINE_WATCHDOG_TIMEOUT_MS)

VARIABLES
    \* --- lifecycle ---
    probe_pc,          \* position of hipi_ups_probe
    remove_pc,         \* position of hipi_ups_remove
    devres_pc,         \* position of the devres release after probe failure / remove
    \* --- struct gpio_data and the lines behind it ---
    status_desc,       \* TRUE while the status GPIO is held
    status_value,      \* level driven on the status line
    power_level,       \* level of the power-fault line
    power_irq,         \* TRUE while power_irq_handler is registered
    power_irq_pending, \* an edge interrupt waits for the power IRQ thread
    power_pc,          \* position of power_irq_handler
    ups_online_irq,    \* TRUE while ups_online_irq_handler is registered
    online_irq_pending,
    online_pc,         \* position of ups_online_irq_handler
    ups_online,        \* data->ups_online
    \* --- data->shutdown_work (struct delayed_work) ---
    dw_pending,        \* "none" | "timer" (delay running) | "queued" (on the workqueue)
    dw_expires,        \* jiffies left until the delay timer fires
    dw_running,        \* shutdown_work_handler is executing
    dw_disabled,       \* contexts inside cancel_delayed_work_sync
    \* --- data->ups_online_timer (struct timer_list) ---
    wd_pending,        \* timer is armed
    wd_expires,        \* jiffies left until it fires
    wd_running,        \* ups_online_timer_callback is executing
    \* --- memory ---
    uaf,               \* a callback ran on the devm-freed gpio_data
    \* --- history (observation only) ---
    lastEdge,          \* branch taken by the most recently handled power edge
    sinceFault,        \* jiffies since the most recently handled fault edge
    shutdownCount,     \* number of orderly_poweroff calls
    firedSinceRestore, \* shutdown_work_handler ran and no restore edge was handled since
    bootLevel,         \* level read by the initial check in probe (-1: not read yet)
    armedAtRemove,     \* the shutdown delay timer was running when remove was entered
    sinceBoot,         \* jiffies since that check
    powerEdges,        \* power-line changes produced so far
    beats,             \* heartbeat edges produced so far
    beatHandled,       \* some heartbeat edge has been handled after probe returned 0
    sinceBeat,         \* jiffies since the most recently handled heartbeat edge
    sinceWdArm,        \* jiffies since the most recent mod_timer of the watchdog
    runStartCount,     \* shutdownCount when the current run of fault edges began
    wdCallbackRan,     \* ups_online_timer_callback has run at least once
    levelAtShutdown    \* power level when orderly_poweroff was last reached (-1: never)

lifecycle == <<probe_pc, remove_pc, devres_pc>>
gpio == <<status_desc, status_value>>
powerv == <<power_level, power_irq, power_irq_pending, power_pc>>
onlinev == <<ups_online_irq, online_irq_pending, online_pc, ups_online>>
dwork == <<dw_pending, dw_expires, dw_running, dw_disabled>>
wdtimer == <<wd_pending, wd_expires, wd_running>>
hist_power == <<lastEdge, sinceFault, shutdownCount, firedSinceRestore, bootLevel, armedAtRemove,
               sinceBoot, powerEdges>>
hist_online == <<beats, beatHandled, sinceBeat, sinceWdArm>>
hist_more == <<runStartCount, wdCallbackRan, levelAtShutdown>>

vars == <<lifecycle, gpio, powerv, onlinev, dwork, wdtimer, uaf, hist_power, hist_online,
          hist_more>>

\* gpio_data has been released by devres (devm_kzalloc memory is gone).
freed == devres_pc = "released"

Init ==
    /\ probe_pc = "status" /\ remove_pc = "idle" /\ devres_pc = "idle"
    /\ status_desc = FALSE /\ status_value = 0
    /\ power_level \in {0, 1}
    /\ power_irq = FALSE /\ power_irq_pending = FALSE /\ power_pc = "idle"
    /\ ups_online_irq = FALSE /\ online_irq_pending = FALSE /\ online_pc = "idle"
    /\ ups_online = FALSE
    /\ dw_pending = "none" /\ dw_expires = 0 /\ dw_running = FALSE /\ dw_disabled = {}
    /\ wd_pending = FALSE /\ wd_expires = 0 /\ wd_running = FALSE
    /\ uaf = FALSE
    /\ lastEdge = "none" /\ sinceFault = 0 /\ shutdownCount = 0
    /\ firedSinceRestore = FALSE /\ bootLevel = -1 /\ armedAtRemove = FALSE /\ sinceBoot = 0
    /\ powerEdges = 0 /\ beats = 0 /\ beatHandled = FALSE /\ sinceBeat = 0
    /\ sinceWdArm = 0
    /\ runStartCount = 0 /\ wdCallbackRan = FALSE /\ levelAtShutdown = -1


Min(a, b) == IF a < b THEN a ELSE b

\* ---------------------------------------------------- kernel primitives --
\* schedule_delayed_work(): queue_delayed_work_on() arms the delay timer only
\* when it wins WORK_STRUCT_PENDING; on a work that is already pending (timer
\* running or queued) or being cancelled it returns false and changes nothing.
schedule_delayed_work(delay) ==
    IF dw_pending = "none" /\ dw_disabled = {}
    THEN /\ dw_pending' = "timer"
         /\ dw_expires' = delay
    ELSE UNCHANGED <<dw_pending, dw_expires>>

\* First half of cancel_delayed_work_sync(): steal the pending work (delete
\* the delay timer or take the work off the queue) and keep it disabled.
cancel_grab(ctx) ==
    /\ dw_pending' = "none"
    /\ dw_expires' = 0
    /\ dw_disabled' = dw_disabled \cup {ctx}

\* Second half: flush, i.e. wait until no shutdown_work_handler is executing.
flush_without_wait == TRUE
flush_done == ~dw_running

cancel_finish(ctx) ==
    /\ flush_done
    /\ dw_disabled' = dw_disabled \ {ctx}

\* A timer call that leaves the watchdog as it finds it.
mod_timer_not_armed(timeout) == UNCHANGED <<wd_pending, wd_expires, sinceWdArm>>

\* mod_timer(): (re)arm the watchdog for a full timeout, pending or not.
mod_timer(timeout) ==
    /\ wd_pending' = TRUE
    /\ wd_expires' = timeout
    /\ sinceWdArm' = 0

\* del_timer(): deactivate the timer without waiting for its callback.
del_timer ==
    /\ wd_pending' = FALSE
    /\ wd_expires' = 0
    /\ sinceWdArm' = 0

\* del_timer_sync(): deactivate the timer once its callback is not running.
del_timer_sync ==
    /\ ~wd_running
    /\ wd_pending' = FALSE
    /\ wd_expires' = 0
    /\ sinceWdArm' = 0

\* ------------------------------------------------------- hipi_ups_probe --
\* GPIOD_OUT_LOW / gpiod_set_value(status_desc, 0): alive.
status_alive == 0
\* gpiod_set_value(status_desc, 1) in remove: stopping.
status_stopping == 1

\* if (data->status_desc) gpiod_set_value(data->status_desc, 1): the level of
\* the status line after remove's last statement, given the level before it.
remove_status_left_alone(value) == value
remove_status(value) == IF status_desc THEN status_stopping ELSE value

\* An acquisition step failed: probe returns the error and the driver core
\* releases the device's devres entries.
ProbeFail ==
    /\ probe_pc' = "failed"
    /\ devres_pc' = "free_online_irq"

\* devm_gpiod_get(dev, "status", GPIOD_OUT_LOW); gpiod_set_value(.., 0);
\* INIT_DELAYED_WORK.
ProbeStatus ==
    /\ probe_pc = "status"
    /\ \E ok \in BOOLEAN :
         IF ok
         THEN /\ status_desc' = TRUE
              /\ status_value' = status_alive
              /\ probe_pc' = "power"
              /\ UNCHANGED devres_pc
         ELSE /\ ProbeFail
              /\ UNCHANGED gpio
    /\ UNCHANGED <<remove_pc, powerv, onlinev, dwork, wdtimer, uaf, hist_power, hist_online,
                   hist_more>>

\* devm_gpiod_get(dev, "power", GPIOD_IN)
ProbePower ==
    /\ probe_pc = "power"
    /\ \E ok \in BOOLEAN :
         IF ok
         THEN probe_pc' = "check" /\ UNCHANGED devres_pc
         ELSE ProbeFail
    /\ UNCHANGED <<remove_pc, gpio, powerv, onlinev, dwork, wdtimer, uaf, hist_power, hist_online,
                   hist_more>>

\* if (gpiod_get_value(data->power_desc)) schedule_delayed_work(...)
boot_fault_ignored(level) == FALSE
boot_fault(level) == level # 0

ProbeCheck ==
    /\ probe_pc = "check"
    /\ IF boot_fault(power_level)
       THEN schedule_delayed_work(ShutdownDelay)
       ELSE UNCHANGED <<dw_pending, dw_expires>>
    /\ bootLevel' = power_level
    /\ probe_pc' = "to_irq"
    /\ UNCHANGED <<remove_pc, devres_pc, gpio, powerv, onlinev, dw_running, dw_disabled,
                   wdtimer, uaf, lastEdge, sinceFault, shutdownCount, firedSinceRestore,
                   armedAtRemove, sinceBoot, powerEdges, hist_online,
                   hist_more>>

\* data->power_irq = gpiod_to_irq(...); if (data->power_irq < 0) return ...
ProbeToIrq ==
    /\ probe_pc = "to_irq"
    /\ \E ok \in BOOLEAN :
         IF ok
         THEN probe_pc' = "req_power_irq" /\ UNCHANGED devres_pc
         ELSE ProbeFail
    /\ UNCHANGED <<remove_pc, gpio, powerv, onlinev, dwork, wdtimer, uaf, hist_power, hist_online,
                   hist_more>>

\* devm_request_threaded_irq(.., power_irq_handler, both edges | ONESHOT, ..)
ProbeRequestPowerIrq ==
    /\ probe_pc = "req_power_irq"
    /\ \E ok \in BOOLEAN :
         IF ok
         THEN /\ power_irq' = TRUE
              /\ probe_pc' = "online"
              /\ UNCHANGED devres_pc
         ELSE /\ ProbeFail
              /\ UNCHANGED power_irq
    /\ UNCHANGED <<remove_pc, gpio, power_level, power_irq_pending, power_pc, onlinev,
                   dwork, wdtimer, uaf, hist_power, hist_online,
                   hist_more>>

\* timer_setup(..); devm_gpiod_get(dev, "online", GPIOD_IN)
ProbeOnline ==
    /\ probe_pc = "online"
    /\ \E ok \in BOOLEAN :
         IF ok
         THEN probe_pc' = "req_online_irq" /\ UNCHANGED devres_pc
         ELSE ProbeFail
    /\ UNCHANGED <<remove_pc, gpio, powerv, onlinev, dwork, wdtimer, uaf, hist_power, hist_online,
                   hist_more>>

\* devm_request_threaded_irq(.., ups_online_irq_handler, ..)
ProbeRequestOnlineIrq ==
    /\ probe_pc = "req_online_irq"
    /\ \E ok \in BOOLEAN :
         IF ok
         THEN /\ ups_online_irq' = TRUE
              /\ probe_pc' = "mod_timer"
              /\ UNCHANGED devres_pc
         ELSE /\ ProbeFail
              /\ UNCHANGED ups_online_irq
    /\ UNCHANGED <<remove_pc, gpio, powerv, online_irq_pending, online_pc, ups_online,
                   dwork, wdtimer, uaf, hist_power, hist_online,
                   hist_more>>

\* A probe that returns without starting the watchdog.
probe_skips_watchdog == UNCHANGED <<wd_pending, wd_expires, sinceWdArm>>

\* Start the watchdog timer (it will fire if no heartbeats are received).
probe_starts_watchdog == mod_timer(WatchdogTimeout)

\* mod_timer(&data->ups_online_timer, ..); platform_set_drvdata; return 0
ProbeStartWatchdog ==
    /\ probe_pc = "mod_timer"
    /\ probe_starts_watchdog
    /\ probe_pc' = "done"
    /\ UNCHANGED <<remove_pc, devres_pc, gpio, powerv, onlinev, dwork, wd_running, uaf,
                   hist_power, beats, beatHandled, sinceBeat,
                   hist_more>>

hipi_ups_probe ==
    \/ ProbeStatus
    \/ ProbePower
    \/ ProbeCheck
    \/ ProbeToIrq
    \/ ProbeRequestPowerIrq
    \/ ProbeOnline
    \/ ProbeRequestOnlineIrq
    \/ ProbeStartWatchdog

attached == probe_pc = "done" /\ remove_pc = "idle"

\* ------------------------------------------------------ hipi_ups_remove --
\* The driver core calls remove on a bound (successfully probed) device.
RemoveEnter ==
    /\ probe_pc = "done"
    /\ remove_pc = "idle"
    /\ remove_pc' = "del_timer"
    /\ armedAtRemove' = (dw_pending = "timer")
    /\ UNCHANGED <<probe_pc, devres_pc, gpio, powerv, onlinev, dwork, wdtimer, uaf,
                   lastEdge, sinceFault, shutdownCount, firedSinceRestore, bootLevel,
                   sinceBoot, powerEdges, hist_online,
                   hist_more>>

\* del_timer_sync(&data->ups_online_timer)
RemoveDelTimer ==
    /\ remove_pc = "del_timer"
    /\ del_timer_sync
    /\ remove_pc' = "cancel"
    /\ UNCHANGED <<probe_pc, devres_pc, gpio, powerv, onlinev, dwork, wd_running, uaf,
                   hist_power, beats, beatHandled, sinceBeat,
                   hist_more>>

\* cancel_delayed_work_sync(&data->shutdown_work): grab ...
RemoveCancel ==
    /\ remove_pc = "cancel"
    /\ cancel_grab("remove")
    /\ remove_pc' = "cancel_wait"
    /\ UNCHANGED <<probe_pc, devres_pc, gpio, powerv, onlinev, dw_running, wdtimer, uaf,
                   hist_power, hist_online,
                   hist_more>>

\* ... and flush
RemoveCancelDone ==
    /\ remove_pc = "cancel_wait"
    /\ cancel_finish("remove")
    /\ remove_pc' = "status"
    /\ UNCHANGED <<probe_pc, devres_pc, gpio, powerv, onlinev, dw_pending, dw_expires,
                   dw_running, wdtimer, uaf, hist_power, hist_online,
                   hist_more>>

\* if (data->status_desc) gpiod_set_value(data->status_desc, 1); return;
\* the driver core then releases the devres entries.
RemoveStatus ==
    /\ remove_pc = "status"
    /\ status_value' = remove_status(status_value)
    /\ remove_pc' = "done"
    /\ devres_pc' = "free_online_irq"
    /\ UNCHANGED <<probe_pc, status_desc, powerv, onlinev, dwork, wdtimer, uaf,
                   hist_power, hist_online,
                   hist_more>>

hipi_ups_remove ==
    \/ RemoveEnter
    \/ RemoveDelTimer
    \/ RemoveCancel
    \/ RemoveCancelDone
    \/ RemoveStatus

\* ------------------------------------------------------- devres release --
\* Entries are released in reverse order of acquisition.  free_irq() waits
\* for a handler thread that is still running.
DevresFreeOnlineIrq ==
    /\ devres_pc = "free_online_irq"
    /\ online_pc = "idle"
    /\ ups_online_irq' = FALSE
    /\ online_irq_pending' = FALSE
    /\ devres_pc' = "free_power_irq"
    /\ UNCHANGED <<probe_pc, remove_pc, gpio, powerv, online_pc, ups_online, dwork,
                   wdtimer, uaf, hist_power, hist_online,
                   hist_more>>

\* free the power IRQ, put the GPIOs, free the devm_kzalloc'ed gpio_data
DevresFreeRest ==
    /\ devres_pc = "free_power_irq"
    /\ power_pc = "idle"
    /\ power_irq' = FALSE
    /\ power_irq_pending' = FALSE
    /\ status_desc' = FALSE
    /\ devres_pc' = "released"
    /\ UNCHANGED <<probe_pc, remove_pc, status_value, power_level, power_pc, onlinev,
                   dwork, wdtimer, uaf, hist_power, hist_online,
                   hist_more>>

devres_release_all ==
    \/ DevresFreeOnlineIrq
    \/ DevresFreeRest

\* ---------------------------------------------------------- environment --
\* The power-fault line takes level l.  With the IRQ registered for both
\* edges this raises the interrupt; l = power_level is a glitch too short to
\* be seen by a later level read (a spurious or duplicate edge).
PowerEdge ==
    /\ powerEdges < MaxPowerEdges
    /\ ~freed
    /\ \E l \in {0, 1} :
         /\ l # power_level \/ power_irq
         /\ power_level' = l
    /\ power_irq_pending' = (power_irq_pending \/ power_irq)
    /\ powerEdges' = powerEdges + 1
    /\ UNCHANGED <<lifecycle, gpio, power_irq, power_pc, onlinev, dwork, wdtimer, uaf,
                   lastEdge, sinceFault, shutdownCount, firedSinceRestore, bootLevel,
                   armedAtRemove, sinceBoot, hist_online,
                   hist_more>>

\* The UPS toggles the heartbeat line (either direction counts).
HeartbeatEdge ==
    /\ beats < MaxBeats
    /\ ups_online_irq
    /\ online_irq_pending' = TRUE
    /\ beats' = beats + 1
    /\ UNCHANGED <<lifecycle, gpio, powerv, ups_online_irq, online_pc, ups_online, dwork,
                   wdtimer, uaf, hist_power, beatHandled, sinceBeat, sinceWdArm,
                   hist_more>>

\* ---------------------------------------------------- power_irq_handler --
\* int val = gpiod_get_value(data->power_desc); if (val == 1) ...
PowerIrqEnter ==
    /\ power_irq /\ power_irq_pending
    /\ power_pc = "idle"
    /\ power_irq_pending' = FALSE
    /\ power_pc' = IF power_level = 1 THEN "fault" ELSE "restore"
    /\ UNCHANGED <<lifecycle, gpio, power_level, power_irq, onlinev, dwork, wdtimer, uaf,
                   hist_power, hist_online,
                   hist_more>>

\* schedule_delayed_work(&data->shutdown_work, msecs_to_jiffies(SHUTDOWN_DELAY_MS))
PowerIrqFault ==
    /\ power_pc = "fault"
    /\ schedule_delayed_work(ShutdownDelay)
    /\ power_pc' = "idle"
    /\ lastEdge' = "fault"
    /\ sinceFault' = 0
    /\ sinceBoot' = 0
    /\ runStartCount' = IF lastEdge = "fault" THEN runStartCount ELSE shutdownCount
    /\ UNCHANGED <<lifecycle, gpio, power_level, power_irq, power_irq_pending, onlinev,
                   dw_running, dw_disabled, wdtimer, uaf, shutdownCount, firedSinceRestore,
                   bootLevel, armedAtRemove, powerEdges, hist_online, wdCallbackRan,
                   levelAtShutdown>>

\* cancel_delayed_work_sync(&data->shutdown_work): grab ...
PowerIrqRestore ==
    /\ power_pc = "restore"
    /\ cancel_grab("irq")
    /\ power_pc' = "restore_wait"
    /\ UNCHANGED <<lifecycle, gpio, power_level, power_irq, power_irq_pending, onlinev,
                   dw_running, wdtimer, uaf, hist_power, hist_online,
                   hist_more>>

\* ... and flush; return IRQ_HANDLED
PowerIrqRestoreDone ==
    /\ power_pc = "restore_wait"
    /\ cancel_finish("irq")
    /\ power_pc' = "idle"
    /\ lastEdge' = "restore"
    /\ sinceFault' = 0
    /\ sinceBoot' = 0
    /\ firedSinceRestore' = FALSE
    /\ UNCHANGED <<lifecycle, gpio, power_level, power_irq, power_irq_pending, onlinev,
                   dw_pending, dw_expires, dw_running, wdtimer, uaf, shutdownCount,
                   bootLevel, armedAtRemove, powerEdges, hist_online,
                   hist_more>>

power_irq_handler ==
    \/ PowerIrqEnter
    \/ PowerIrqFault
    \/ PowerIrqRestore
    \/ PowerIrqRestoreDone

\* ----------------------------------------------- ups_online_irq_handler --
\* if (!data->ups_online)               (the read)
OnlineIrqEnter ==
    /\ ups_online_irq /\ online_irq_pending
    /\ online_pc = "idle"
    /\ online_irq_pending' = FALSE
    /\ online_pc' = IF ~ups_online THEN "set" ELSE "mod"
    /\ UNCHANGED <<lifecycle, gpio, powerv, ups_online_irq, ups_online, dwork, wdtimer,
                   uaf, hist_power, hist_online,
                   hist_more>>

\*     data->ups_online = true;         (the write)
OnlineIrqSet ==
    /\ online_pc = "set"
    /\ ups_online' = TRUE
    /\ online_pc' = "mod"
    /\ UNCHANGED <<lifecycle, gpio, powerv, ups_online_irq, online_irq_pending, dwork,
                   wdtimer, uaf, hist_power, hist_online,
                   hist_more>>

\* mod_timer(&data->ups_online_timer, jiffies + msecs_to_jiffies(..)); return
OnlineIrqModTimer ==
    /\ online_pc = "mod"
    /\ mod_timer(WatchdogTimeout)
    /\ online_pc' = "idle"
    /\ beatHandled' = (beatHandled \/ probe_pc = "done")
    /\ sinceBeat' = 0
    /\ UNCHANGED <<lifecycle, gpio, powerv, ups_online_irq, online_irq_pending, ups_online,
                   dwork, wd_running, uaf, hist_power, beats,
                   hist_more>>

ups_online_irq_handler ==
    \/ OnlineIrqEnter
    \/ OnlineIrqSet
    \/ OnlineIrqModTimer

\* --------------------------------------------- shutdown_work: the worker --
\* The delay timer of shutdown_work fires: delayed_work_timer_fn() puts the
\* work on the workqueue.  On freed gpio_data this is a use after free: the
\* timer may find the work intact or find garbage and queue nothing.
DelayedWorkTimerFn ==
    /\ dw_pending = "timer" /\ dw_expires = 0
    /\ IF freed
       THEN /\ uaf' = TRUE
            /\ dw_pending' \in {"queued", "none"}
       ELSE /\ dw_pending' = "queued"
            /\ UNCHANGED uaf
    /\ UNCHANGED <<lifecycle, gpio, powerv, onlinev, dw_expires, dw_running, dw_disabled,
                   wdtimer, hist_power, hist_online,
                   hist_more>>

\* A worker takes the work off the queue and clears WORK_STRUCT_PENDING
\* before it calls the handler (a work never runs twice at once).
WorkerStart ==
    /\ dw_pending = "queued"
    /\ ~dw_running
    /\ dw_pending' = "none"
    /\ dw_running' = TRUE
    /\ UNCHANGED <<lifecycle, gpio, powerv, onlinev, dw_expires, dw_disabled, wdtimer, uaf,
                   hist_power, hist_online,
                   hist_more>>

\* The number of orderly_poweroff() calls one run of the handler makes when
\* the power-fault input is at the given level: the handler never reads the
\* input, so it is one call at either level.
poweroff_only_if_still_fault(level) == IF level = 1 THEN 1 ELSE 0
orderly_poweroff_calls(level) == 1

\* dev_alert(..); orderly_poweroff(true);
\* dw_running spans the whole handler, the orderly_poweroff() call included.
shutdown_work_handler ==
    /\ dw_running
    /\ shutdownCount' = shutdownCount + orderly_poweroff_calls(power_level)
    /\ firedSinceRestore' = TRUE
    /\ levelAtShutdown' = power_level
    /\ dw_running' = FALSE
    /\ uaf' = (uaf \/ freed)
    /\ UNCHANGED <<lifecycle, gpio, powerv, onlinev, dw_pending, dw_expires, dw_disabled,
                   wdtimer, lastEdge, sinceFault, bootLevel, armedAtRemove, sinceBoot,
                   powerEdges, hist_online, runStartCount, wdCallbackRan>>

\* ------------------------------------------- ups_online_timer: the timer --
\* The watchdog expires: the timer is detached and its callback is called.
\* On freed gpio_data the timer softirq may call it or find garbage.
WatchdogExpire ==
    /\ wd_pending /\ wd_expires = 0
    /\ ~wd_running
    /\ wd_pending' = FALSE
    /\ sinceWdArm' = sinceWdArm
    /\ IF freed
       THEN /\ uaf' = TRUE
            /\ wd_running' \in BOOLEAN
       ELSE /\ wd_running' = TRUE
            /\ UNCHANGED uaf
    /\ UNCHANGED <<lifecycle, gpio, powerv, onlinev, dwork, wd_expires, hist_power, beats,
                   beatHandled, sinceBeat,
                   hist_more>>

\* data->ups_online = false; dev_crit(..)
timer_callback_sets_online == TRUE
timer_callback_value == FALSE

\* A variant of the callback that also queues the shutdown work at once when
\* the heartbeat is lost.
ups_online_timer_callback_shutdown ==
    /\ wd_running
    /\ ups_online' = timer_callback_value
    /\ wd_running' = FALSE
    /\ wdCallbackRan' = TRUE
    /\ uaf' = (uaf \/ freed)
    /\ dw_pending' = IF dw_pending = "none" /\ dw_disabled = {} THEN "queued" ELSE dw_pending
    /\ UNCHANGED <<lifecycle, gpio, powerv, ups_online_irq, online_irq_pending, online_pc,
                   dw_expires, dw_running, dw_disabled, wd_pending, wd_expires, hist_power,
                   hist_online, runStartCount, levelAtShutdown>>

ups_online_timer_callback ==
    /\ wd_running
    /\ ups_online' = timer_callback_value
    /\ wd_running' = FALSE
    /\ wdCallbackRan' = TRUE
    /\ uaf' = (uaf \/ freed)
    /\ UNCHANGED <<lifecycle, gpio, powerv, ups_online_irq, online_irq_pending, online_pc,
                   dwork, wd_pending, wd_expires, hist_power, hist_online,
                   runStartCount, levelAtShutdown>>

\* ------------------------------------------------------------------ time --
\* One jiffy passes.  Expired timers, queued work and running callbacks are
\* served before the clock moves on.
Tick ==
    /\ ~(dw_pending = "timer" /\ dw_expires = 0)
    /\ dw_pending # "queued" /\ ~dw_running
    /\ ~(wd_pending /\ wd_expires = 0)
    /\ ~wd_running
    /\ dw_expires' = IF dw_pending = "timer" THEN dw_expires - 1 ELSE dw_expires
    /\ wd_expires' = IF wd_pending THEN wd_expires - 1 ELSE wd_expires
    /\ sinceFault' = IF lastEdge = "fault" THEN Min(sinceFault + 1, ShutdownDelay + 1) ELSE 0
    /\ sinceBoot' = IF bootLevel = 1 /\ lastEdge = "none"
                    THEN Min(sinceBoot + 1, ShutdownDelay + 1) ELSE 0
    /\ sinceBeat' = IF beatHandled THEN Min(sinceBeat + 1, WatchdogTimeout + 1) ELSE 0
    /\ sinceWdArm' = IF wd_pending THEN Min(sinceWdArm + 1, WatchdogTimeout + 1) ELSE 0
    /\ UNCHANGED <<lifecycle, gpio, powerv, onlinev, dw_pending, dw_running, dw_disabled,
                   wd_pending, wd_running, uaf, lastEdge, shutdownCount, firedSinceRestore,
                   bootLevel, armedAtRemove, powerEdges, beats, beatHandled,
                   hist_more>>

Next ==
    \/ hipi_ups_probe
    \/ hipi_ups_remove
    \/ devres_release_all
    \/ PowerEdge
    \/ HeartbeatEdge
    \/ power_irq_handler
    \/ ups_online_irq_handler
    \/ DelayedWorkTimerFn
    \/ WorkerStart
    \/ shutdown_work_handler
    \/ WatchdogExpire
    \/ ups_online_timer_callback
    \/ Tick

Spec == Init /\ [][Next]_vars

\* ======================================================== properties ====
\* The driver is in its attached lifetime: probe has not failed and remove
\* has not been entered.
monitoring == probe_pc # "failed" /\ remove_pc = "idle"

\* The work of shutdown_work is neither pending nor executing.
shutdown_idle == dw_pending = "none" /\ ~dw_running

\* C1: ShutdownAction (orderly_poweroff) is invoked only if the most recently
\* handled power edge was a fault edge and no restore edge was handled within
\* SHUTDOWN_DELAY_MS of it, i.e. at least the full delay has passed since
\* that fault edge.  (Stated for invocations that follow at least one handled
\* edge; the shutdown armed by the initial level check is C4's.)
C1_ShutdownOnlyAfterFullDelay ==
    [][(shutdownCount' > shutdownCount /\ lastEdge # "none")
         => (lastEdge = "fault" /\ sinceFault >= ShutdownDelay)]_vars

\* C2: when power_irq_handler handles a fault edge while the shutdown delay is
\* already running, the countdown restarts: afterwards the deadline is
\* SHUTDOWN_DELAY_MS after this edge.
C2_FaultEdgeRestartsCountdown ==
    [][(power_pc = "fault" /\ power_pc' = "idle" /\ dw_pending = "timer")
         => (dw_pending' = "timer" /\ dw_expires' = ShutdownDelay)]_vars

\* C3: once power_irq_handler has handled a restore edge and returned, the
\* shutdown delay is not running, the work is not queued and
\* shutdown_work_handler is not executing, and ShutdownAction is not invoked,
\* until a later fault edge is handled.
C3_RestoreCancelsSynchronously ==
    /\ [](lastEdge = "restore" => shutdown_idle)
    /\ [][lastEdge = "restore" => shutdownCount' = shutdownCount]_vars

\* A restore edge was the only edge handled, it found the shutdown armed by
\* the initial level check, and no shutdown was invoked.
C3_Witness ==
    /\ bootLevel = 1 /\ lastEdge = "restore" /\ power_pc = "idle"
    /\ powerEdges = 1 /\ shutdownCount = 0 /\ shutdown_idle
    /\ probe_pc = "done"

\* C4: if the initial level check of hipi_ups_probe reads fault and no power
\* edge is handled, then, while the driver stays attached, ShutdownAction has
\* not been invoked before SHUTDOWN_DELAY_MS have passed since the check and
\* has been invoked exactly once when they have passed.
C4_BootFaultShutsDownAfterDelay ==
    (bootLevel = 1 /\ monitoring /\ lastEdge = "none" /\ power_pc = "idle")
      => /\ sinceBoot < ShutdownDelay => shutdownCount = 0
         /\ sinceBoot > ShutdownDelay => shutdownCount = 1

\* Attached with a fault at the initial check, no edge ever produced, the
\* delay over and the shutdown invoked.
C4_Witness ==
    /\ bootLevel = 1 /\ probe_pc = "done" /\ remove_pc = "idle"
    /\ powerEdges = 0 /\ lastEdge = "none"
    /\ sinceBoot >= ShutdownDelay /\ shutdownCount = 1

\* C5: when hipi_ups_probe has returned an error and the device's resources
\* have been released, no shutdown timer and no watchdog timer is armed and
\* no edge subscription remains.
C5_FailedProbeLeavesNothing ==
    (probe_pc = "failed" /\ devres_pc = "released")
      => /\ shutdown_idle
         /\ ~wd_pending /\ ~wd_running
         /\ ~power_irq /\ ~ups_online_irq

\* C6: if hipi_ups_remove is entered while the shutdown delay is running, then
\* once detach has completed (remove returned, resources released) no
\* shutdown is pending or executing, whatever power edges were handled
\* while detach ran.
C6_NoShutdownAfterDetach ==
    (armedAtRemove /\ remove_pc = "done" /\ devres_pc = "released") => shutdown_idle

\* C7: after shutdown_work_handler has run, the shutdown is not armed again
\* (and so ShutdownAction is not invoked again) until a restore edge has been
\* handled.
C7_AtMostOncePerFaultEpisode ==
    firedSinceRestore => shutdown_idle

\* C8: after a heartbeat edge has been handled on the attached driver,
\* ups_online is true until
\* UPS_ONLINE_WATCHDOG_TIMEOUT_MS have passed since that edge, and false once
\* they have passed without a further heartbeat edge.
C8_OnlineUntilDeadline ==
    (beatHandled /\ attached /\ online_pc = "idle" /\ ~online_irq_pending)
      => /\ sinceBeat < WatchdogTimeout => ups_online
         /\ sinceBeat > WatchdogTimeout => ~ups_online

C10_StatusOutput ==
    /\ []((status_desc /\ remove_pc = "idle") => status_value = status_alive)
    /\ [](remove_pc = "done" => status_value = status_stopping)
    /\ [][status_value = status_stopping => status_value' = status_stopping]_vars

\* Detach has completed and the status line reads stopping.
C10_Witness ==
    remove_pc = "done" /\ devres_pc = "released" /\ status_value = status_stopping


\* C11: any number of consecutive fault edges handled by power_irq_handler
\* leaves what one fault edge leaves: during a run of fault edges with no
\* restore edge in between, orderly_poweroff is invoked at most the one time
\* a single fault edge would invoke it.  (Stated for runs that begin with no
\* shutdown armed by the initial level check.)
C11_FaultEdgesIdempotent ==
    (bootLevel = 0 /\ lastEdge = "fault") => shutdownCount - runStartCount <= 1

\* C12: hipi_ups_remove orders its steps: when del_timer_sync returns the
\* watchdog is neither armed nor in its callback, when
\* cancel_delayed_work_sync returns the shutdown work is neither pending nor
\* executing, the Status Output is driven to 1 only after both have returned,
\* and the edge subscriptions of an attached driver are released only after
\* the Status Output is 1.
C12_DetachOrdering ==
    [][ /\ (remove_pc = "del_timer" /\ remove_pc' = "cancel")
            => (~wd_pending' /\ ~wd_running')
        /\ (remove_pc = "cancel_wait" /\ remove_pc' = "status")
            => (dw_pending' = "none" /\ ~dw_running')
        /\ (status_value # status_stopping /\ status_value' = status_stopping)
            => remove_pc = "status"
        /\ (probe_pc = "done" /\ (power_irq # power_irq' \/ ups_online_irq # ups_online_irq'))
            => (remove_pc = "done" /\ status_value = status_stopping) ]_vars

\* A detach that found both timers busy has finished and released everything.
C12_Witness ==
    /\ remove_pc = "done" /\ devres_pc = "released"
    /\ armedAtRemove /\ wdCallbackRan
    /\ ~power_irq /\ ~ups_online_irq
    /\ status_value = status_stopping

\* C13: after a successful probe with no heartbeat edge ever delivered,
\* ups_online is false, the watchdog armed by probe counts down its full
\* timeout, and once it is no longer armed its callback is running or has
\* run, leaving ups_online false.
C13_WatchdogStartsAtAttach ==
    (attached /\ beats = 0)
        => /\ ~ups_online
           /\ wd_pending => (~wdCallbackRan /\ wd_expires + sinceWdArm = WatchdogTimeout)
           /\ ~wd_pending => (wd_running \/ wdCallbackRan)

\* No heartbeat was ever delivered and the callback armed by probe has run.
C13_Witness ==
    /\ attached /\ beats = 0
    /\ wdCallbackRan /\ ~wd_pending /\ ~wd_running
    /\ ~ups_online

\* C14: no invocation of power_irq_handler or ups_online_irq_handler waits
\* for shutdown_work_handler (and the orderly_poweroff call inside it) to
\* return: a handler is never held at a point it can leave only once the
\* shutdown work has finished executing.
C14_HandlersNeverWaitForShutdown ==
    /\ power_pc = "restore_wait" => flush_done
    /\ online_pc # "idle" => ENABLED ups_online_irq_handler

\* C15: the two monitors are independent: no step of ups_online_irq_handler
\* or ups_online_timer_callback changes the shutdown work (pending state,
\* expiry, execution) or invokes orderly_poweroff, and no step of
\* power_irq_handler or shutdown_work_handler changes ups_online or the
\* watchdog timer.
C15_MonitorsIndependent ==
    [][ /\ (online_pc' # online_pc \/ (wd_running /\ ~wd_running'))
            => UNCHANGED <<dw_pending, dw_expires, dw_running, dw_disabled, shutdownCount>>
        /\ (power_pc' # power_pc \/ (dw_running /\ ~dw_running'))
            => UNCHANGED <<ups_online, wd_pending, wd_expires, wd_running>> ]_vars

\* Both monitors have acted: the shutdown work has run while the heartbeat
\* handler had set ups_online, and the flag and the watchdog are still as
\* the heartbeat handler left them.
C15_Witness ==
    /\ shutdownCount = 1 /\ lastEdge = "fault"
    /\ beatHandled /\ ups_online /\ wd_pending
    /\ wdCallbackRan
    /\ dw_pending = "none" /\ ~dw_running

\* C16: the heartbeat handler's read, write and re-arm are indivisible with
\* respect to the watchdog callback: whenever ups_online_irq_handler
\* returns, ups_online is true and the watchdog is armed for the full
\* timeout, whatever the callback did meanwhile.
C16_HeartbeatHandlerIndivisible ==
    [][(online_pc # "idle" /\ online_pc' = "idle")
        => (ups_online' /\ wd_pending' /\ wd_expires' = WatchdogTimeout)]_vars

\* C17: when the shutdown delay has expired, shutdown_work_handler invokes
\* orderly_poweroff exactly once per run and without looking at the
\* power-fault input, so also when the input is low by then; and an expired
\* (queued) work leaves the queue only by being run or by a cancel.
C17_ShutdownUnconditional ==
    [][ /\ (dw_running /\ ~dw_running') => shutdownCount' = shutdownCount + 1
        /\ (dw_pending = "queued" /\ dw_pending' # "queued")
            => (dw_running' \/ dw_disabled' # {}) ]_vars

\* orderly_poweroff was invoked while the input was low and the falling edge
\* had not been handled: the last handled edge is the fault edge.
C17_Witness ==
    /\ shutdownCount = 1 /\ levelAtShutdown = 0
    /\ lastEdge = "fault" /\ power_pc = "idle"
    /\ monitoring

\* C18: no fault is missed across attach: while the driver is attached with
\* the power-fault input at fault level and every delivered power edge
\* handled, a shutdown is pending, executing or already invoked, also when
\* the input went to fault level between probe's initial level check and
\* the registration of the power IRQ.
C18_NoFaultMissedAcrossAttach ==
    (attached /\ power_level = 1 /\ ~power_irq_pending /\ power_pc = "idle")
        => (dw_pending # "none" \/ dw_running \/ shutdownCount >= 1)

\* C19: once detach has completed (remove returned and the devres entries
\* are released) the watchdog timer is not armed and
\* ups_online_timer_callback is not running, whatever heartbeat handlers
\* ran during detach.
C19_WatchdogIdleAfterDetach ==
    (remove_pc = "done" /\ devres_pc = "released") => (~wd_pending /\ ~wd_running)

\* C20: while the driver is attached, whenever ups_online is true and
\* neither ups_online_irq_handler nor ups_online_timer_callback is in
\* progress, the watchdog timer is armed: the flag is never left true
\* without a deadline that will clear it.
C20_OnlineImpliesWatchdogArmed ==
    (attached /\ ups_online /\ online_pc = "idle" /\ ~wd_running) => wd_pending

\* ups_online is true at rest after the callback has already cleared it
\* once, and the watchdog is counting down again.
C20_Witness ==
    /\ attached /\ ups_online /\ online_pc = "idle" /\ ~wd_running
    /\ wdCallbackRan /\ beats = 2
    /\ wd_pending /\ wd_expires = 0

=============================================================================
